---- MODULE Spec2Model ----
(***************************************************************************)
(* Cerebro API (src/main.py): a FastAPI service over PostgreSQL.  Every    *)
(* request opens its own psycopg2 connection, runs its statements inside   *)
(* the implicit transaction psycopg2 opens at the first execute, commits   *)
(* (writes only) and closes the connection.  The model keeps the committed *)
(* contents of the tables, and per request in flight its position in the   *)
(* handler, its connection and the uncommitted writes of its transaction.  *)
(***************************************************************************)
EXTENDS Integers, Sequences, FiniteSets, TLC

VARIABLES
  POSTGRES_HOST,         \* os.getenv("POSTGRES_HOST") is set
  cotizaciones,          \* table cotizaciones (written by an external process)
  detalle_cotizaciones,  \* committed rows of detalle_cotizaciones
  ordenes_medicas,       \* committed rows of ordenes_medicas
  auditoria_examenes,    \* committed rows of auditoria_examenes
  ordenes_clinicas,      \* committed order headers of POST /ordenes/nueva
  orden_detalle,         \* committed order line items of POST /ordenes/nueva
  clock,                 \* the database server's time
  serial,                \* last value handed out by the id sequences
  pc,                    \* per request slot: position in the handler
  req,                   \* per request slot: endpoint and input
  conn,                  \* per request slot: "none" | "open" | "closed"
  txn,                   \* per request slot: the open transaction
  resp,                  \* per request slot: the HTTP response
  sql,                   \* per request slot: statements handed to cur.execute
  acked,                 \* ids of audit rows whose POST responded success
  lastOk,                \* per folio: the last successful replacement, if no write followed
  nreq                   \* requests received so far

vars == <<POSTGRES_HOST, cotizaciones, detalle_cotizaciones, ordenes_medicas,
          auditoria_examenes, ordenes_clinicas, orden_detalle, clock, serial,
          pc, req, conn, txn, resp, sql, acked, lastOk, nreq>>

tables == <<cotizaciones, detalle_cotizaciones, ordenes_medicas,
            auditoria_examenes, ordenes_clinicas, orden_detalle>>

----------------------------------------------------------------------------
(* Bounds of the model *)

MaxRequests == 3
MaxItems == 2
MaxClock == 2

Slots == {1, 2}
Folios == {"F1", "F2"}
Ruts == {"11.111.111-1", "99.999.999-9"}

----------------------------------------------------------------------------
(* Python values of the loosely typed items (List[dict]) *)

PyStr(s) == [t |-> "str", n |-> 0, s |-> s]
PyInt(n) == [t |-> "int", n |-> n, s |-> <<>>]
Absent == [t |-> "absent", n |-> 0, s |-> <<>>]

Digits == <<"0", "1", "2", "3", "4", "5", "6", "7", "8", "9">>

IsDigit(c) == \E d \in 1..10 : Digits[d] = c

DigitVal(c) == (CHOOSE d \in 1..10 : Digits[d] = c) - 1

RECURSIVE ParseDigits(_)
ParseDigits(s) ==
  IF s = <<>> THEN 0
  ELSE 10 * ParseDigits(SubSeq(s, 1, Len(s) - 1)) + DigitVal(s[Len(s)])

RECURSIVE IntToStr(_)
IntToStr(n) ==
  IF n < 10 THEN <<Digits[n + 1]>>
  ELSE IntToStr(n \div 10) \o <<Digits[(n % 10) + 1]>>

\* item.get(key, default)
DictGet(v, default) == IF v.t = "absent" THEN default ELSE v

\* int(x) raises ValueError unless x is an int or a string of digits
IntRaises(v) ==
  v.t = "str" /\ (v.s = <<>> \/ \E i \in 1..Len(v.s) : ~IsDigit(v.s[i]))

PyIntOf(v) == IF v.t = "int" THEN v.n ELSE ParseDigits(v.s)

\* str(x)
PyStrOf(v) == IF v.t = "int" THEN IntToStr(v.n) ELSE v.s

\* json.dumps of a list of strings, as the sequence of its tokens
RECURSIVE JsonItems(_)
JsonItems(codes) ==
  IF codes = <<>> THEN <<>>
  ELSE IF Len(codes) = 1 THEN <<"\"", codes[1], "\"">>
  ELSE <<"\"", codes[1], "\"", ", ">> \o JsonItems(Tail(codes))

JsonDumps(codes) == <<"[">> \o JsonItems(codes) \o <<"]">>

----------------------------------------------------------------------------
(* Inputs *)

ItemA == [cod |-> PyStr(<<"E", "1">>), nom |-> PyStr(<<"H", "b">>), cop |-> PyInt(15)]
ItemB == [cod |-> PyInt(30), nom |-> Absent, cop |-> PyStr(<<"7">>)]
ItemX == [cod |-> Absent, nom |-> PyStr(<<"R", "x">>), cop |-> PyStr(<<"x">>)]

Items == {ItemA, ItemB, ItemX}

ItemLists == UNION {[1..n -> Items] : n \in 0..MaxItems}

ExamenLists == UNION {[1..n -> {ItemA, ItemB}] : n \in 0..MaxItems}

CodigoLists == {<<>>, <<"E1">>, <<"E1", "30">>}

NoReq ==
  [op |-> "none", folio |-> "", rut |-> "", items |-> <<>>,
   nombre |-> "", cantidad |-> 0, codigos |-> <<>>]

Requests(op) ==
  CASE op = "buscar" ->
         {[NoReq EXCEPT !.op = op, !.rut = u] : u \in Ruts}
    [] op = "detalle" ->
         {[NoReq EXCEPT !.op = op, !.folio = f] : f \in Folios}
    [] op = "actualizar" ->
         {[NoReq EXCEPT !.op = op, !.folio = f, !.items = l] :
            f \in Folios, l \in ItemLists}
    [] op = "auditoria" ->
         {[NoReq EXCEPT !.op = op, !.folio = "F1", !.rut = "11.111.111-1",
                        !.nombre = "Ana", !.cantidad = Len(c), !.codigos = c] :
            c \in CodigoLists}
    [] op = "generar" ->
         {[NoReq EXCEPT !.op = op, !.folio = f, !.rut = u] :
            f \in Folios, u \in Ruts}
    [] op = "historial" ->
         {[NoReq EXCEPT !.op = op]}
    [] op = "nueva" ->
         {[NoReq EXCEPT !.op = op, !.folio = f, !.rut = "11.111.111-1", !.items = l] :
            f \in Folios, l \in ExamenLists}

----------------------------------------------------------------------------
(* The state after start-up *)

NoTxn == [snap |-> {}, del |-> {}, ins |-> <<>>]
NoResp == [status |-> 0, detail |-> "", body |-> <<>>]
NoOk == [valid |-> FALSE, items |-> <<>>]

Init ==
  /\ POSTGRES_HOST \in BOOLEAN
  /\ cotizaciones =
       {[folio |-> "F1", documento_id |-> "11.111.111-1", fecha_cotizacion |-> 1],
        [folio |-> "F2", documento_id |-> "11.111.111-1", fecha_cotizacion |-> 2]}
  /\ detalle_cotizaciones =
       {[id |-> 1, folio_cotizacion |-> "F1", codigo_examen |-> <<"O", "1">>,
         nombre_examen |-> <<"O", "l", "d">>, valor_copago |-> 10]}
  /\ ordenes_medicas = {}
  /\ auditoria_examenes = {}
  /\ ordenes_clinicas = {}
  /\ orden_detalle = {}
  /\ clock = 0
  /\ serial = 1
  /\ pc = [r \in Slots |-> "idle"]
  /\ req = [r \in Slots |-> NoReq]
  /\ conn = [r \in Slots |-> "none"]
  /\ txn = [r \in Slots |-> NoTxn]
  /\ resp = [r \in Slots |-> NoResp]
  /\ sql = [r \in Slots |-> 0]
  /\ acked = {}
  /\ lastOk = [f \in Folios |-> NoOk]
  /\ nreq = 0

----------------------------------------------------------------------------
(* conectar_db and the handlers' exits *)

\* conectar_db(): the connection, or None ("none") when POSTGRES_HOST is unset
\* or psycopg2.connect raises
conectar_db(connects) ==
  IF POSTGRES_HOST THEN (IF connects THEN "open" ELSE "none") ELSE "none"

\* the handler without its "if not conn" line: conn.cursor() raises on None
ConnErrorUnguarded ==
  [status |-> 500, detail |-> "'NoneType' object has no attribute 'cursor'",
   body |-> <<>>]

\* if not conn: raise HTTPException(status_code=500, detail="Error de conexión a DB")
ConnError == [status |-> 500, detail |-> "Error de conexion a DB", body |-> <<>>]

\* the classes the handlers raise inside their try block; all derive from Exception
HTTPException(status, detail) ==
  [cls |-> "HTTPException", status |-> status, str |-> detail]
DatabaseError(what) == [cls |-> "psycopg2.Error", status |-> 0, str |-> what]
ValueError == [cls |-> "ValueError", status |-> 0, str |-> "invalid literal for int()"]

ExceptionSubclasses == {"HTTPException", "psycopg2.Error", "ValueError"}

\* except Exception as e: ... raise HTTPException(status_code=500, detail=str(e))
ExceptException(e) ==
  IF e.cls \in ExceptionSubclasses
  THEN [status |-> 500, detail |-> e.str, body |-> <<>>]
  ELSE [status |-> e.status, detail |-> e.str, body |-> <<>>]

\* the first statement of each handler
FirstPc(op) ==
  CASE op \in {"buscar", "detalle", "historial"} -> "select"
    [] op = "actualizar" -> "delete"
    [] op \in {"auditoria", "generar"} -> "insert"
    [] op = "nueva" -> "header"

\* conn = conectar_db(); if not conn: raise HTTPException(500, ...)
Begin(r, inputs) ==
  /\ pc[r] = "idle"
  /\ nreq < MaxRequests
  /\ nreq' = nreq + 1
  /\ \E q \in inputs, connects \in BOOLEAN :
       /\ req' = [req EXCEPT ![r] = q]
       /\ conn' = [conn EXCEPT ![r] = conectar_db(connects)]
       /\ IF conectar_db(connects) = "none"
          THEN /\ pc' = [pc EXCEPT ![r] = "done"]
               /\ resp' = [resp EXCEPT ![r] = ConnError]
          ELSE /\ pc' = [pc EXCEPT ![r] = FirstPc(q.op)]
               /\ resp' = resp
  /\ UNCHANGED <<POSTGRES_HOST, tables, clock, serial, txn, sql, acked, lastOk>>

\* the response has been sent; the worker takes the next request
Finish(r) ==
  /\ pc[r] = "done"
  /\ pc' = [pc EXCEPT ![r] = "idle"]
  /\ req' = [req EXCEPT ![r] = NoReq]
  /\ conn' = [conn EXCEPT ![r] = "none"]
  /\ resp' = [resp EXCEPT ![r] = NoResp]
  /\ sql' = [sql EXCEPT ![r] = 0]
  /\ UNCHANGED <<POSTGRES_HOST, tables, clock, serial, txn, acked, lastOk, nreq>>

\* conn.close(): the server discards the uncommitted transaction
CloseConn(r) ==
  /\ conn' = [conn EXCEPT ![r] = "closed"]
  /\ txn' = [txn EXCEPT ![r] = NoTxn]

\* an except branch that does not release the connection
ExceptNoClose(r) == UNCHANGED <<conn, txn>>

\* except Exception as e: if conn: conn.close()
ExceptClose(r) == CloseConn(r)

----------------------------------------------------------------------------
(* What the SQL statements return and change *)

RECURSIVE Perms(_)
Perms(S) ==
  IF S = {} THEN {<<>>}
  ELSE UNION {{<<x>> \o p : p \in Perms(S \ {x})} : x \in S}

\* SELECT ... with no ORDER BY: the rows, in an order the server chooses
SelectUnordered(S) == Perms(S)

\* SELECT ... ORDER BY fecha_cotizacion DESC: ties in an order the server chooses
OrderByFechaCotizacionDesc(S) ==
  {p \in Perms(S) :
     \A i \in 1..Len(p) - 1 : p[i].fecha_cotizacion >= p[i + 1].fecha_cotizacion}

\* SELECT ... ORDER BY fecha_emision DESC: ties in an order the server chooses
OrderByFechaEmisionDesc(S) ==
  {p \in Perms(S) :
     \A i \in 1..Len(p) - 1 : p[i].fecha_emision >= p[i + 1].fecha_emision}

\* identities of the rows in use: committed, pending, or seen by a waiting DELETE
UsedIds ==
  {x.id : x \in detalle_cotizaciones \cup ordenes_medicas \cup auditoria_examenes
                  \cup ordenes_clinicas \cup orden_detalle}
    \cup UNION {txn[o].snap \cup txn[o].del \cup {txn[o].ins[i].id : i \in 1..Len(txn[o].ins)}
                : o \in Slots}

\* the identities of n newly inserted rows: the first n not in use
RECURSIVE FreshFrom(_, _)
FreshFrom(i, n) ==
  IF n = 0 THEN <<>>
  ELSE IF i \in UsedIds THEN FreshFrom(i + 1, n)
  ELSE <<i>> \o FreshFrom(i + 1, n - 1)

FreshIds(n) == FreshFrom(1, n)

FreshId == FreshIds(1)[1]

\* rows another open transaction has deleted are locked until it ends
Locked(r, ids) == \E o \in Slots \ {r} : txn[o].del \cap ids # {}

Range(s) == {s[i] : i \in 1..Len(s)}

----------------------------------------------------------------------------
(* GET /cotizaciones/buscar/{rut} *)

buscar_cotizaciones_por_rut(r) ==
  /\ pc[r] = "select" /\ req[r].op = "buscar"
  /\ sql' = [sql EXCEPT ![r] = @ + 1]
  /\ \E rows \in OrderByFechaCotizacionDesc(
                   {c \in cotizaciones : c.documento_id = req[r].rut}) :
       resp' = [resp EXCEPT ![r] =
                  IF rows = <<>>
                  THEN ExceptException(HTTPException(404, "No se encontraron cotizaciones"))
                  ELSE [status |-> 200, detail |-> "", body |-> rows]]
  /\ CloseConn(r)
  /\ pc' = [pc EXCEPT ![r] = "done"]
  /\ UNCHANGED <<POSTGRES_HOST, tables, clock, serial, req, acked, lastOk, nreq>>

----------------------------------------------------------------------------
(* GET /cotizaciones/detalle/{folio} *)

\* SELECT codigo_examen, nombre_examen, valor_copago
DetalleBase(row) ==
  [codigo_examen |-> row.codigo_examen, nombre_examen |-> row.nombre_examen,
   valor_copago |-> row.valor_copago]

DetalleRows(p) == [i \in 1..Len(p) |-> DetalleBase(p[i])]

obtener_detalle_cotizacion(r) ==
  /\ pc[r] = "select" /\ req[r].op = "detalle"
  /\ sql' = [sql EXCEPT ![r] = @ + 1]
  /\ \E rows \in SelectUnordered({d \in detalle_cotizaciones :
                                    d.folio_cotizacion = req[r].folio}) :
       resp' = [resp EXCEPT ![r] =
                  [status |-> 200, detail |-> "", body |-> DetalleRows(rows)]]
  /\ CloseConn(r)
  /\ pc' = [pc EXCEPT ![r] = "done"]
  /\ UNCHANGED <<POSTGRES_HOST, tables, clock, serial, req, acked, lastOk, nreq>>

----------------------------------------------------------------------------
(* POST /cotizaciones/actualizar *)

\* the row one edited item becomes
DetalleRow(id, folio, item) ==
  [id |-> id, folio_cotizacion |-> folio,
   codigo_examen |-> PyStrOf(DictGet(item.cod, PyStr(<<>>))),
   nombre_examen |-> DictGet(item.nom, PyStr(<<>>)).s,
   valor_copago |-> PyIntOf(DictGet(item.cop, PyInt(0)))]

\* int(item.get('Copago', 0)) raises ValueError
CopagoRaises(item) == IntRaises(DictGet(item.cop, PyInt(0)))

\* the items the loop reaches before int() raises
Convertible(items) ==
  IF \E i \in 1..Len(items) : CopagoRaises(items[i])
  THEN (CHOOSE i \in 1..Len(items) :
          CopagoRaises(items[i]) /\ \A j \in 1..(i - 1) : ~CopagoRaises(items[j])) - 1
  ELSE Len(items)

\* WHERE folio_cotizacion = %s: the identities of the committed rows of the folio
Matching(folio) ==
  {d.id : d \in {d \in detalle_cotizaciones : d.folio_cotizacion = folio}}

\* the DELETE on a connection in autocommit mode: it takes effect at once
actualizar_delete_autocommit(r) ==
  /\ pc[r] = "delete"
  /\ sql' = [sql EXCEPT ![r] = @ + 1]
  /\ detalle_cotizaciones' =
       {d \in detalle_cotizaciones : d.folio_cotizacion # req[r].folio}
  /\ pc' = [pc EXCEPT ![r] = "insert"]
  /\ UNCHANGED <<POSTGRES_HOST, cotizaciones, ordenes_medicas, auditoria_examenes,
                 ordenes_clinicas, orden_detalle, clock, serial, req, conn, txn, resp,
                 acked, lastOk, nreq>>

\* cur.execute("DELETE FROM detalle_cotizaciones WHERE folio_cotizacion = %s"):
\* the statement sees the rows committed when it starts, and waits for a
\* transaction that has deleted one of them
actualizar_delete(r) ==
  /\ pc[r] = "delete"
  /\ sql' = [sql EXCEPT ![r] = @ + 1]
  /\ IF Locked(r, Matching(req[r].folio))
     THEN /\ txn' = [txn EXCEPT ![r].snap = Matching(req[r].folio)]
          /\ pc' = [pc EXCEPT ![r] = "delete_wait"]
     ELSE /\ txn' = [txn EXCEPT ![r].del = Matching(req[r].folio)]
          /\ pc' = [pc EXCEPT ![r] = "insert"]
  /\ UNCHANGED <<POSTGRES_HOST, tables, clock, serial, req, conn, resp, acked, lastOk, nreq>>

\* the other transaction has ended: rows it deleted and committed are skipped
actualizar_delete_resume(r) ==
  /\ pc[r] = "delete_wait"
  /\ ~Locked(r, txn[r].snap)
  /\ txn' = [txn EXCEPT ![r].del = txn[r].snap \cap {d.id : d \in detalle_cotizaciones},
                        ![r].snap = {}]
  /\ pc' = [pc EXCEPT ![r] = "insert"]
  /\ UNCHANGED <<POSTGRES_HOST, tables, clock, serial, req, conn, resp, sql, acked,
                 lastOk, nreq>>

\* for item in data.items: cur.execute("INSERT INTO detalle_cotizaciones ...", (...)):
\* the loop runs to its end, or to the first item whose int() raises
actualizar_insert(r) ==
  /\ pc[r] = "insert" /\ req[r].op = "actualizar"
  /\ sql' = [sql EXCEPT ![r] = @ + Convertible(req[r].items)]
  /\ IF Convertible(req[r].items) < Len(req[r].items)
     THEN /\ resp' = [resp EXCEPT ![r] = ExceptException(ValueError)]
          /\ ExceptClose(r)
          /\ pc' = [pc EXCEPT ![r] = "done"]
     ELSE /\ txn' = [txn EXCEPT ![r].ins =
                       [i \in 1..Len(req[r].items) |->
                          DetalleRow(FreshIds(Len(req[r].items))[i], req[r].folio,
                                     req[r].items[i])]]
          /\ pc' = [pc EXCEPT ![r] = "commit"]
          /\ UNCHANGED <<conn, resp>>
  /\ UNCHANGED <<POSTGRES_HOST, tables, clock, serial, req, acked, lastOk, nreq>>

\* what conn.commit() makes of a table
Committed(table, r) == {x \in table : x.id \notin txn[r].del} \cup Range(txn[r].ins)

Success(message) == [status |-> 200, detail |-> message, body |-> <<>>]

\* conn.commit(); cur.close(); conn.close(); return {"status": "success", ...}
actualizar_commit(r) ==
  /\ pc[r] = "commit" /\ req[r].op = "actualizar"
  /\ detalle_cotizaciones' = Committed(detalle_cotizaciones, r)
  /\ lastOk' = [lastOk EXCEPT ![req[r].folio] =
                  [valid |-> TRUE, items |-> DetalleRows(txn[r].ins)]]
  /\ CloseConn(r)
  /\ resp' = [resp EXCEPT ![r] = Success("success")]
  /\ pc' = [pc EXCEPT ![r] = "done"]
  /\ UNCHANGED <<POSTGRES_HOST, cotizaciones, ordenes_medicas, auditoria_examenes,
                 ordenes_clinicas, orden_detalle, clock, serial, req, sql, acked, nreq>>

----------------------------------------------------------------------------
(* POST /ordenes/generar *)

\* a table without the constraint
NoUniqueConstraint(table, folio) == FALSE

\* the uniqueness constraint on the originating quotation of an order
UniqueViolation(table, folio) == \E o \in table : o.folio_cotizacion = folio

\* an INSERT of a key another open transaction has inserted waits for it to end
PendingKey(r, folio) ==
  \E o \in Slots \ {r} :
    /\ req[o].op = req[r].op
    /\ txn[o].ins # <<>>
    /\ txn[o].ins[1].folio_cotizacion = folio

\* cur.execute("INSERT INTO ordenes_medicas (folio_cotizacion, rut_paciente) ...")
generar_insert(r) ==
  /\ pc[r] = "insert" /\ req[r].op = "generar"
  /\ ~PendingKey(r, req[r].folio)
  /\ sql' = [sql EXCEPT ![r] = @ + 1]
  /\ IF UniqueViolation(ordenes_medicas, req[r].folio)
     THEN /\ resp' = [resp EXCEPT ![r] =
                        ExceptException(DatabaseError("UniqueViolation"))]
          /\ ExceptClose(r)
          /\ pc' = [pc EXCEPT ![r] = "done"]
     ELSE /\ txn' = [txn EXCEPT ![r].ins =
                       <<[id |-> FreshId, folio_cotizacion |-> req[r].folio,
                          rut_paciente |-> req[r].rut]>>]
          /\ pc' = [pc EXCEPT ![r] = "commit"]
          /\ UNCHANGED <<conn, resp>>
  /\ UNCHANGED <<POSTGRES_HOST, tables, clock, serial, req, acked, lastOk, nreq>>

\* conn.commit(); cur.close(); conn.close(); return {"status": "success", ...}
generar_commit(r) ==
  /\ pc[r] = "commit" /\ req[r].op = "generar"
  /\ ordenes_medicas' = Committed(ordenes_medicas, r)
  /\ CloseConn(r)
  /\ resp' = [resp EXCEPT ![r] = Success("success")]
  /\ pc' = [pc EXCEPT ![r] = "done"]
  /\ UNCHANGED <<POSTGRES_HOST, cotizaciones, detalle_cotizaciones, auditoria_examenes,
                 ordenes_clinicas, orden_detalle, clock, serial, req, sql, acked,
                 lastOk, nreq>>

----------------------------------------------------------------------------
(* POST /auditoria/ordenes *)

\* fecha_emision is the server's time when the row is inserted
Now == {t \in {clock, clock + 1} : t <= MaxClock}

\* cur.execute("INSERT INTO auditoria_examenes (...) VALUES (...)")
auditoria_insert(r) ==
  /\ pc[r] = "insert" /\ req[r].op = "auditoria"
  /\ sql' = [sql EXCEPT ![r] = @ + 1]
  /\ \E t \in Now :
       /\ clock' = t
       /\ txn' = [txn EXCEPT ![r].ins =
                    <<[id |-> FreshId, rut_paciente |-> req[r].rut,
                       nombre_paciente |-> req[r].nombre,
                       folio_origen |-> req[r].folio,
                       cantidad_examenes |-> req[r].cantidad,
                       codigos_json |-> JsonDumps(req[r].codigos),
                       fecha_emision |-> t]>>]
  /\ pc' = [pc EXCEPT ![r] = "commit"]
  /\ UNCHANGED <<POSTGRES_HOST, tables, serial, req, conn, resp, acked, lastOk, nreq>>

\* the handler without its conn.commit(): closing discards the row
auditoria_without_commit(r) ==
  /\ pc[r] = "commit" /\ req[r].op = "auditoria"
  /\ acked' = acked \cup {txn[r].ins[1].id}
  /\ CloseConn(r)
  /\ resp' = [resp EXCEPT ![r] = Success("success")]
  /\ pc' = [pc EXCEPT ![r] = "done"]
  /\ UNCHANGED <<POSTGRES_HOST, tables, clock, serial, req, sql, lastOk, nreq>>

\* conn.commit(); cur.close(); conn.close(); return {"status": "success", ...}
auditoria_commit(r) ==
  /\ pc[r] = "commit" /\ req[r].op = "auditoria"
  /\ auditoria_examenes' = Committed(auditoria_examenes, r)
  /\ acked' = acked \cup {txn[r].ins[1].id}
  /\ CloseConn(r)
  /\ resp' = [resp EXCEPT ![r] = Success("success")]
  /\ pc' = [pc EXCEPT ![r] = "done"]
  /\ UNCHANGED <<POSTGRES_HOST, cotizaciones, detalle_cotizaciones, ordenes_medicas,
                 ordenes_clinicas, orden_detalle, clock, serial, req, sql, lastOk, nreq>>

----------------------------------------------------------------------------
(* GET /auditoria/historial *)

obtener_historial_auditoria(r) ==
  /\ pc[r] = "select" /\ req[r].op = "historial"
  /\ sql' = [sql EXCEPT ![r] = @ + 1]
  /\ \E rows \in OrderByFechaEmisionDesc(auditoria_examenes) :
       resp' = [resp EXCEPT ![r] = [status |-> 200, detail |-> "", body |-> rows]]
  /\ CloseConn(r)
  /\ pc' = [pc EXCEPT ![r] = "done"]
  /\ UNCHANGED <<POSTGRES_HOST, tables, clock, serial, req, acked, lastOk, nreq>>

----------------------------------------------------------------------------
(* POST /ordenes/nueva: the conversion that also writes the order's line items *)

\* the header inserted outside the transaction of the line items
nueva_header_autocommit(r) ==
  /\ pc[r] = "header"
  /\ ~PendingKey(r, req[r].folio)
  /\ ~UniqueViolation(ordenes_clinicas, req[r].folio)
  /\ sql' = [sql EXCEPT ![r] = @ + 1]
  /\ txn' = [txn EXCEPT ![r].ins =
               <<[id |-> FreshId, folio_orden |-> serial + 1,
                  folio_cotizacion |-> req[r].folio,
                  rut_paciente |-> req[r].rut]>>]
  /\ ordenes_clinicas' = ordenes_clinicas \cup {txn'[r].ins[1]}
  /\ serial' = serial + 1
  /\ pc' = [pc EXCEPT ![r] = "items"]
  /\ UNCHANGED <<POSTGRES_HOST, cotizaciones, detalle_cotizaciones, ordenes_medicas,
                 auditoria_examenes, orden_detalle, clock, req, conn, resp, acked,
                 lastOk, nreq>>

\* INSERT of the order header; folio_orden comes from a sequence
nueva_header(r) ==
  /\ pc[r] = "header"
  /\ ~PendingKey(r, req[r].folio)
  /\ sql' = [sql EXCEPT ![r] = @ + 1]
  /\ IF UniqueViolation(ordenes_clinicas, req[r].folio)
     THEN /\ resp' = [resp EXCEPT ![r] =
                        ExceptException(DatabaseError("UniqueViolation"))]
          /\ ExceptClose(r)
          /\ pc' = [pc EXCEPT ![r] = "done"]
          /\ serial' = serial
     ELSE /\ txn' = [txn EXCEPT ![r].ins =
                       <<[id |-> FreshId, folio_orden |-> serial + 1,
                          folio_cotizacion |-> req[r].folio,
                          rut_paciente |-> req[r].rut]>>]
          /\ serial' = serial + 1
          /\ pc' = [pc EXCEPT ![r] = "items"]
          /\ UNCHANGED <<conn, resp>>
  /\ UNCHANGED <<POSTGRES_HOST, tables, clock, req, acked, lastOk, nreq>>

\* the line item one exam of the request becomes
OrdenDetalleRow(id, folio_orden, item) ==
  [id |-> id, folio_orden |-> folio_orden,
   codigo_examen |-> PyStrOf(DictGet(item.cod, PyStr(<<>>))),
   nombre_examen |-> DictGet(item.nom, PyStr(<<>>)).s]

\* INSERT of every line item, in the transaction of the header
nueva_items(r) ==
  /\ pc[r] = "items"
  /\ sql' = [sql EXCEPT ![r] = @ + Len(req[r].items)]
  /\ txn' = [txn EXCEPT ![r].ins = @ \o
               [i \in 1..Len(req[r].items) |->
                  OrdenDetalleRow(FreshIds(Len(req[r].items))[i],
                                  txn[r].ins[1].folio_orden, req[r].items[i])]]
  /\ pc' = [pc EXCEPT ![r] = "commit"]
  /\ UNCHANGED <<POSTGRES_HOST, tables, clock, serial, req, conn, resp, acked, lastOk, nreq>>

\* commit of header and line items together; 201 with the new folio_orden
nueva_commit(r) ==
  /\ pc[r] = "commit" /\ req[r].op = "nueva"
  /\ ordenes_clinicas' = ordenes_clinicas \cup {txn[r].ins[1]}
  /\ orden_detalle' = orden_detalle \cup Range(Tail(txn[r].ins))
  /\ resp' = [resp EXCEPT ![r] =
                [status |-> 201, detail |-> "success",
                 body |-> <<txn[r].ins[1].folio_orden>>]]
  /\ CloseConn(r)
  /\ pc' = [pc EXCEPT ![r] = "done"]
  /\ UNCHANGED <<POSTGRES_HOST, cotizaciones, detalle_cotizaciones, ordenes_medicas,
                 auditoria_examenes, clock, serial, req, sql, acked, lastOk, nreq>>

----------------------------------------------------------------------------
(* Errors of the database *)

\* how many cur.execute calls are made at this position when one of them raises:
\* none at a commit or in a waiting statement, one to all in a loop of INSERTs
Failing(r) ==
  CASE pc[r] \in {"commit", "delete_wait"} -> {0}
    [] pc[r] = "insert" /\ req[r].op = "actualizar" -> 1..Convertible(req[r].items)
    [] pc[r] = "items" /\ req[r].items # <<>> -> 1..Len(req[r].items)
    [] pc[r] = "items" -> {}
    [] OTHER -> {1}

\* a statement or the commit raises psycopg2.Error:
\* except Exception as e: if conn: conn.close(); raise HTTPException(500, str(e))
DbError(r) ==
  /\ pc[r] \in {"select", "delete", "delete_wait", "insert", "commit", "header", "items"}
  /\ \E k \in Failing(r) : sql' = [sql EXCEPT ![r] = @ + k]
  /\ ExceptClose(r)
  /\ resp' = [resp EXCEPT ![r] = ExceptException(DatabaseError("OperationalError"))]
  /\ pc' = [pc EXCEPT ![r] = "done"]
  /\ UNCHANGED <<POSTGRES_HOST, tables, clock, serial, req, acked, lastOk, nreq>>

----------------------------------------------------------------------------
(* Specifications *)

\* the whole service, one request after the other, on a sample of the inputs
\* that takes every handler through each of its exits
Sample ==
  Requests("buscar") \cup Requests("historial")
    \cup {q \in Requests("detalle") \cup Requests("generar") : q.folio = "F1"}
    \cup {q \in Requests("actualizar") :
            q.folio = "F1" /\ q.items \in {<<ItemB, ItemA>>, <<ItemA, ItemX>>}}
    \cup {q \in Requests("auditoria") : Len(q.codigos) = 2}

Next ==
  \/ Begin(1, Sample)
  \/ buscar_cotizaciones_por_rut(1)
  \/ obtener_detalle_cotizacion(1)
  \/ actualizar_delete(1)
  \/ actualizar_insert(1)
  \/ actualizar_commit(1)
  \/ auditoria_insert(1)
  \/ auditoria_commit(1)
  \/ generar_insert(1)
  \/ generar_commit(1)
  \/ obtener_historial_auditoria(1)
  \/ DbError(1)
  \/ Finish(1)

Spec == Init /\ [][Next]_vars

\* quotation editing: two requests, each in a worker of its own
EditInputs == Requests("actualizar") \cup Requests("detalle")

NextEdit ==
  \E r \in Slots :
    \/ Begin(r, EditInputs)
    \/ obtener_detalle_cotizacion(r)
    \/ actualizar_delete(r)
    \/ actualizar_delete_resume(r)
    \/ actualizar_insert(r)
    \/ actualizar_commit(r)
    \/ DbError(r)

SpecEdit == Init /\ [][NextEdit]_vars

\* order conversion, two requests at a time
OrdenInputs == Requests("generar")

NextOrden ==
  \E r \in Slots :
    \/ Begin(r, OrdenInputs)
    \/ generar_insert(r)
    \/ generar_commit(r)
    \/ DbError(r)
    \/ Finish(r)

SpecOrden == Init /\ [][NextOrden]_vars

\* the audit trail, two requests at a time
AuditInputs == Requests("auditoria") \cup Requests("historial")

NextAudit ==
  \E r \in Slots :
    \/ Begin(r, AuditInputs)
    \/ auditoria_insert(r)
    \/ auditoria_commit(r)
    \/ obtener_historial_auditoria(r)
    \/ DbError(r)
    \/ Finish(r)

SpecAudit == Init /\ [][NextAudit]_vars

\* order creation with line items: two requests, each in a worker of its own
NuevaInputs == Requests("nueva")

NextNueva ==
  \E r \in Slots :
    \/ Begin(r, NuevaInputs)
    \/ nueva_header(r)
    \/ nueva_items(r)
    \/ nueva_commit(r)
    \/ DbError(r)

SpecNueva == Init /\ [][NextNueva]_vars

----------------------------------------------------------------------------
(* Properties *)

Done(r, op) == pc[r] = "done" /\ req[r].op = op

\* the step in which request r gets its response
Responds(r, op) == req[r].op = op /\ pc[r] # "done" /\ pc'[r] = "done"

\* C1: whatever the sequence and interleaving of POST /ordenes/generar requests,
\* the orders table holds at most one row per originating folio
C1_AtMostOneOrderPerFolio ==
  \A f \in Folios :
    Cardinality({o \in ordenes_medicas : o.folio_cotizacion = f}) <= 1

C1_Witness ==
  \E r \in Slots :
    /\ Done(r, "generar")
    /\ resp[r].detail = "UniqueViolation"
    /\ \E o \in ordenes_medicas : o.folio_cotizacion = req[r].folio

\* C2: the first conversion of a folio responds 200 success; a conversion of a
\* folio already converted is rejected with HTTP 400
C2_SecondConversionIs400 ==
  \A r \in Slots :
    Done(r, "generar") =>
      /\ resp[r].detail = "success" => resp[r].status = 200
      /\ resp[r].detail = "UniqueViolation" => resp[r].status = 400

\* C3: a search that connects, queries without error and matches no quotation
\* responds 404
C3_NoRowsIs404 ==
  \A r \in Slots :
    ( /\ Done(r, "buscar")
      /\ conn[r] = "closed"
      /\ resp[r].detail # "OperationalError"
      /\ {c \in cotizaciones : c.documento_id = req[r].rut} = {} )
    => resp[r].status = 404

\* C4: a GET /cotizaciones/detalle that follows a successful replacement of the
\* folio's items, with no write in between, returns exactly the replacement
\* list, in the order supplied
C4_ReplaceThenGet ==
  [][\A r \in Slots :
       ( /\ Responds(r, "detalle")
         /\ resp'[r].status = 200
         /\ lastOk[req[r].folio].valid )
       => resp'[r].body = lastOk[req[r].folio].items]_vars

\* descending fecha_emision
Descending(rows) ==
  \A i \in 1..Len(rows) - 1 : rows[i].fecha_emision >= rows[i + 1].fecha_emision

\* C5: no step removes or changes an audit row, and GET /auditoria/historial
\* returns every audit row whose POST responded success, in descending
\* fecha_emision order
C5_HistoryCompleteAndDescending ==
  [][/\ auditoria_examenes \subseteq auditoria_examenes'
     /\ \A r \in Slots :
          (Responds(r, "historial") /\ resp'[r].status = 200)
          => /\ acked \subseteq {resp'[r].body[i].id : i \in 1..Len(resp'[r].body)}
             /\ Range(resp'[r].body) \subseteq auditoria_examenes
             /\ Descending(resp'[r].body)]_vars

C5_Witness ==
  \E r \in Slots :
    /\ Done(r, "historial")
    /\ resp[r].status = 200
    /\ Len(resp[r].body) >= 2
    /\ resp[r].body[1].fecha_emision > resp[r].body[2].fecha_emision
    /\ Cardinality(acked) >= 2

\* C6: with POSTGRES_HOST unset no request gets a connection, and a request
\* that gets none responds 500 with the connection-error message, executes no
\* statement and leaves every table as it was
C6_NoConnection ==
  /\ [](\A r \in Slots :
          /\ ~POSTGRES_HOST => conn[r] = "none"
          /\ (pc[r] # "idle" /\ conn[r] = "none") =>
               /\ pc[r] = "done"
               /\ resp[r].status = 500
               /\ resp[r].detail = "Error de conexion a DB"
               /\ sql[r] = 0)
  /\ [][(\E r \in Slots : pc[r] = "idle" /\ pc'[r] # "idle" /\ conn'[r] = "none")
        => tables' = tables]_vars

C6_Witness ==
  /\ ~POSTGRES_HOST
  /\ nreq = MaxRequests
  /\ Done(1, "actualizar")
  /\ resp[1].status = 500

\* C7: an order header of POST /ordenes/nueva becomes visible only together
\* with all of its line items, and a request that fails responds 500 and leaves
\* no header and no line item
C7_OrderWithItemsAtomic ==
  [][\A r \in Slots :
       Responds(r, "nueva") =>
         IF resp'[r].status = 201
         THEN \E h \in ordenes_clinicas' \ ordenes_clinicas :
                /\ ordenes_clinicas' = ordenes_clinicas \cup {h}
                /\ h.folio_cotizacion = req[r].folio
                /\ orden_detalle \subseteq orden_detalle'
                /\ \E p \in Perms(orden_detalle' \ orden_detalle) :
                     Len(p) = Len(req[r].items) /\ p = [i \in 1..Len(req[r].items) |->
                            OrdenDetalleRow(p[i].id, h.folio_orden, req[r].items[i])]
         ELSE /\ resp'[r].status = 500
              /\ ordenes_clinicas' = ordenes_clinicas
              /\ orden_detalle' = orden_detalle]_vars
  /\ [](\A d \in orden_detalle :
          \E h \in ordenes_clinicas : h.folio_orden = d.folio_orden)
  /\ [][(\A r \in Slots : ~Responds(r, "nueva"))
        => (ordenes_clinicas' = ordenes_clinicas /\ orden_detalle' = orden_detalle)]_vars

C7_Witness ==
  \E r \in Slots :
    /\ Done(r, "nueva")
    /\ resp[r].status = 500
    /\ resp[r].detail = "OperationalError"
    /\ sql[r] >= 2
    /\ \E o \in Slots : Done(o, "nueva") /\ resp[o].status = 201 /\ Len(req[o].items) = 2

\* C8: a POST /cotizaciones/actualizar that fails responds 500 and changes no
\* stored line item; the stored line items change only by a whole replacement
C8_ReplaceAllOrNothing ==
  [][/\ \A r \in Slots :
          (Responds(r, "actualizar") /\ resp'[r].status # 200)
          => /\ resp'[r].status = 500
             /\ detalle_cotizaciones' = detalle_cotizaciones
     /\ detalle_cotizaciones' # detalle_cotizaciones
        => \E r \in Slots :
             /\ Responds(r, "actualizar")
             /\ resp'[r].status = 200
             /\ \A d \in detalle_cotizaciones \ detalle_cotizaciones' :
                  d.folio_cotizacion = req[r].folio
             /\ \E p \in Perms(detalle_cotizaciones' \ detalle_cotizaciones) :
                  Len(p) = Len(req[r].items) /\ p = [i \in 1..Len(req[r].items) |->
                         DetalleRow(p[i].id, req[r].folio, req[r].items[i])]]_vars

C8_Witness ==
  \E r \in Slots :
    /\ Done(r, "actualizar")
    /\ resp[r].status = 500
    /\ resp[r].detail = "invalid literal for int()"
    /\ sql[r] >= 2
    /\ \E d \in detalle_cotizaciones : d.folio_cotizacion = req[r].folio

\* C9: a request that has responded holds no open connection
C9_ConnectionClosed ==
  \A r \in Slots : pc[r] \in {"idle", "done"} => conn[r] # "open"

C9_Witness ==
  /\ Done(1, "buscar")
  /\ conn[1] = "closed"
  /\ resp[1].detail = "No se encontraron cotizaciones"

\* the line items stored for a folio are those of the list, each once
StoredIs(f, items) ==
  \E p \in Perms({d \in detalle_cotizaciones : d.folio_cotizacion = f}) :
    Len(p) = Len(items) /\ p = [i \in 1..Len(items) |-> DetalleRow(p[i].id, f, items[i])]

\* C10: after two replacements of the same folio have both succeeded, the
\* folio's stored line items are the list of one of the two requests
C10_OneOfTheTwoLists ==
  ( /\ Done(1, "actualizar") /\ resp[1].status = 200
    /\ Done(2, "actualizar") /\ resp[2].status = 200
    /\ req[1].folio = req[2].folio )
  => \/ StoredIs(req[1].folio, req[1].items)
     \/ StoredIs(req[2].folio, req[2].items)

====
